---- MODULE Spec2Model ----
(***************************************************************************)
(* Article pipeline: ArticlePublisher (publisher/publisher.py) pushes work *)
(* items to a Redis list guarded by a Redis set of published ids;          *)
(* ArticleConsumer (consumer/consumer.py) pops them, scrapes the URL with  *)
(* ArticleScraper and inserts one document per id into a MongoDB           *)
(* collection that carries a unique index on "id".                         *)
(***************************************************************************)
EXTENDS Integers, Sequences, FiniteSets, TLC

VARIABLES
    queue,            \* Redis list 'article_queue': sequence of JSON payloads
    published,        \* Redis set 'published_articles': set of ids
    store,            \* MongoDB collection 'articles': sequence of documents
    storeUp,          \* whether MongoDB answers (FALSE: insert_one raises)
    ppc,              \* publisher process: position in main/publish_all/publish_article
    articles,         \* publisher: the argument of publish_all
    sorted_articles,  \* publisher: the local sorted_articles of publish_all
    idx,              \* publisher: number of loop iterations of publish_all completed
    published_count,  \* publisher: local counter of publish_all
    skipped_count,    \* publisher: local counter of publish_all
    cpc,              \* consumer process: position in run/process_task
    task,             \* consumer: the popped payload (task_json) being processed
    seen,             \* consumer: the HTTP responses session.get received for the task
    soup,             \* consumer: the parsed page (soup) of scrape_article
    scraped,          \* consumer: scraped_data, the dict scrape_article returned
    ret,              \* consumer: what its last process_task call returned, "None" until it returns
    pushed,           \* history: number of rpush calls per id
    midCrash,         \* history: per id, crashes between its rpush and its sadd
    runs              \* history: number of publisher runs started

vars == <<queue, published, store, storeUp, ppc, articles, sorted_articles, idx,
          published_count, skipped_count, cpc, task, seen, soup, scraped, ret,
          pushed, midCrash, runs>>

redisVars == <<queue, published>>
mongoVars == <<store, storeUp>>
publisherVars == <<ppc, articles, sorted_articles, idx, published_count, skipped_count>>
consumerVars == <<cpc, task, seen, soup, scraped, ret>>
historyVars == <<pushed, midCrash, runs>>

-----------------------------------------------------------------------------
(* Bounds of the model *)

\* publisher runs (process starts) in one behaviour of the pipeline
MaxRuns == 2
\* publisher runs in one behaviour when the runs follow one another
SeqRuns == 3
\* length of a batch when the runs follow one another
SeqBatch == 2
\* length of a batch handed to publish_all in the ordering specification
MaxSortBatch == 3
\* HTTP responses a server is asked for in one fetch
MaxResp == 5
\* payloads of other clients of the Redis list waiting in the queue
MaxForeign == 2

Ids == {"a", "b"}
Producers == {"p1", "p2"}
Consumers == {"c1", "c2"}

-----------------------------------------------------------------------------
(* Python values *)

\* Optional values: None is the empty tuple, a present value v is <<v>>
None == <<>>
Some(v) == <<v>>

\* dict.get(key, default) on a dict modelled as a function on its keys
Get(d, k, default) == IF k \in DOMAIN d THEN d[k] ELSE default

\* json.dumps of a dict: a JSON text holding an object with the dict's members
json_dumps(d) == [kind |-> "object", members |-> d]

\* json.loads: the dict of a JSON object text
json_loads(s) == s.members

\* a payload process_task cannot take as a task: json.loads raises
\* JSONDecodeError on a text that is no JSON, and task.get raises
\* AttributeError on a JSON value that is no object
NoJson == [kind |-> "invalid", members |-> [text |-> "{'id': a"]]
NoObject == [kind |-> "array", members |-> [text |-> "[1, 2]"]]
Malformed(s) == s.kind # "object"

\* the default of x.get('priority', 999) in publish_all
DefaultPriority == 999

\* work descriptors: dicts with an id and an optional priority
Article(i, p) == [id |-> i, priority |-> p]
ArticleNoPriority(i) == [id |-> i]

-----------------------------------------------------------------------------
(* publish_all's sort: sorted(articles, key=lambda x: x.get('priority', 999)) *)

\* Mutant of SortKey: a missing priority sorts first
SortKeyDefaultFirst(x) == Get(x, "priority", 0)

SortKey(x) == Get(x, "priority", DefaultPriority)

\* Mutant of InsertSorted: x goes before the elements of equal key
RECURSIVE InsertSortedUnstable(_, _)
InsertSortedUnstable(s, x) ==
    IF s = <<>> THEN <<x>>
    ELSE IF SortKey(Head(s)) < SortKey(x)
         THEN <<Head(s)>> \o InsertSortedUnstable(Tail(s), x)
         ELSE <<x>> \o s

\* s with x put behind every element whose key is not greater than x's
RECURSIVE InsertSorted(_, _)
InsertSorted(s, x) ==
    IF s = <<>> THEN <<x>>
    ELSE IF SortKey(Head(s)) <= SortKey(x)
         THEN <<Head(s)>> \o InsertSorted(Tail(s), x)
         ELSE <<x>> \o s

\* Python's sorted is stable: elements of equal key keep their input order
RECURSIVE Sorted(_)
Sorted(s) ==
    IF s = <<>> THEN <<>>
    ELSE InsertSorted(Sorted(SubSeq(s, 1, Len(s) - 1)), s[Len(s)])

-----------------------------------------------------------------------------
(* publisher/publisher.py: ArticlePublisher *)

Stopped(p) == ppc[p] = "Down"

\* the process is gone, and its locals with it
Exit(p) ==
    /\ ppc' = [ppc EXCEPT ![p] = "Down"]
    /\ articles' = [articles EXCEPT ![p] = <<>>]
    /\ sorted_articles' = [sorted_articles EXCEPT ![p] = <<>>]
    /\ idx' = [idx EXCEPT ![p] = 0]
    /\ published_count' = [published_count EXCEPT ![p] = 0]
    /\ skipped_count' = [skipped_count EXCEPT ![p] = 0]

\* the article of the current iteration of publish_all's for loop
Current(p) == sorted_articles[p][idx[p] + 1]

\* main(): a publisher process starts, loads a non-empty batch and enters
\* publish_all, which sorts it and zeroes its counters. alone: the run starts
\* only when no other publisher process is running. limit bounds the runs.
Run(p, Batches, alone, limit) ==
    /\ Stopped(p)
    /\ runs < limit
    /\ alone => \A q \in Producers : Stopped(q)
    /\ \E b \in Batches :
        /\ articles' = [articles EXCEPT ![p] = b]
        /\ sorted_articles' = [sorted_articles EXCEPT ![p] = Sorted(b)]
    /\ idx' = [idx EXCEPT ![p] = 0]
    /\ published_count' = [published_count EXCEPT ![p] = 0]
    /\ skipped_count' = [skipped_count EXCEPT ![p] = 0]
    /\ ppc' = [ppc EXCEPT ![p] = "Loop"]
    /\ runs' = runs + 1
    /\ UNCHANGED <<redisVars, mongoVars, consumerVars, pushed, midCrash>>

\* Mutant of SIsMember: the check never finds the id (it looks in another key)
SIsMemberBlind(p) ==
    /\ ppc[p] = "Loop"
    /\ idx[p] < Len(sorted_articles[p])
    /\ ppc' = [ppc EXCEPT ![p] = "Checked"]
    /\ UNCHANGED <<redisVars, mongoVars, consumerVars, historyVars,
                   articles, sorted_articles, idx, published_count, skipped_count>>

\* publish_article, the membership check: sismember(published_set, id). A
\* member is skipped (return False, skipped_count += 1); otherwise the call
\* goes on to the push.
SIsMember(p) ==
    /\ ppc[p] = "Loop"
    /\ idx[p] < Len(sorted_articles[p])
    /\ IF Get(Current(p), "id", None) \in published
       THEN /\ skipped_count' = [skipped_count EXCEPT ![p] = @ + 1]
            /\ idx' = [idx EXCEPT ![p] = @ + 1]
            /\ UNCHANGED ppc
       ELSE /\ ppc' = [ppc EXCEPT ![p] = "Checked"]
            /\ UNCHANGED <<skipped_count, idx>>
    /\ UNCHANGED <<redisVars, mongoVars, consumerVars, historyVars,
                   articles, sorted_articles, published_count>>

\* publish_article: rpush(queue_name, json.dumps(article))
RPush(p) ==
    /\ ppc[p] = "Checked"
    /\ queue' = Append(queue, json_dumps(Current(p)))
    /\ pushed' = [pushed EXCEPT ![Current(p).id] = @ + 1]
    /\ ppc' = [ppc EXCEPT ![p] = "Pushed"]
    /\ UNCHANGED <<published, mongoVars, consumerVars, midCrash, runs,
                   articles, sorted_articles, idx, published_count, skipped_count>>

\* Mutant of RPushFail: the failed push is followed by the sadd
RPushFailMarks(p) ==
    /\ ppc[p] = "Checked"
    /\ published' = published \cup {Current(p).id}
    /\ skipped_count' = [skipped_count EXCEPT ![p] = @ + 1]
    /\ idx' = [idx EXCEPT ![p] = @ + 1]
    /\ ppc' = [ppc EXCEPT ![p] = "Loop"]
    /\ UNCHANGED <<queue, mongoVars, consumerVars, historyVars,
                   articles, sorted_articles, published_count>>

\* publish_article: rpush raises; the except clause returns False
RPushFail(p) ==
    /\ ppc[p] = "Checked"
    /\ skipped_count' = [skipped_count EXCEPT ![p] = @ + 1]
    /\ idx' = [idx EXCEPT ![p] = @ + 1]
    /\ ppc' = [ppc EXCEPT ![p] = "Loop"]
    /\ UNCHANGED <<redisVars, mongoVars, consumerVars, historyVars,
                   articles, sorted_articles, published_count>>

\* Mutant of SAdd: the id is not added to the set
SAddForgets(p) ==
    /\ ppc[p] = "Pushed"
    /\ published_count' = [published_count EXCEPT ![p] = @ + 1]
    /\ idx' = [idx EXCEPT ![p] = @ + 1]
    /\ ppc' = [ppc EXCEPT ![p] = "Loop"]
    /\ UNCHANGED <<redisVars, mongoVars, consumerVars, historyVars,
                   articles, sorted_articles, skipped_count>>

\* publish_article: sadd(published_set, id), return True, published_count += 1
SAdd(p) ==
    /\ ppc[p] = "Pushed"
    /\ published' = published \cup {Current(p).id}
    /\ published_count' = [published_count EXCEPT ![p] = @ + 1]
    /\ idx' = [idx EXCEPT ![p] = @ + 1]
    /\ ppc' = [ppc EXCEPT ![p] = "Loop"]
    /\ UNCHANGED <<queue, mongoVars, consumerVars, historyVars,
                   articles, sorted_articles, skipped_count>>

\* Mutant of SAddFail: the item is counted as published
SAddFailCounted(p) ==
    /\ ppc[p] = "Pushed"
    /\ published_count' = [published_count EXCEPT ![p] = @ + 1]
    /\ idx' = [idx EXCEPT ![p] = @ + 1]
    /\ ppc' = [ppc EXCEPT ![p] = "Loop"]
    /\ UNCHANGED <<redisVars, mongoVars, consumerVars, historyVars,
                   articles, sorted_articles, skipped_count>>

\* publish_article: sadd raises after the push; the except clause returns False
SAddFail(p) ==
    /\ ppc[p] = "Pushed"
    /\ skipped_count' = [skipped_count EXCEPT ![p] = @ + 1]
    /\ idx' = [idx EXCEPT ![p] = @ + 1]
    /\ ppc' = [ppc EXCEPT ![p] = "Loop"]
    /\ UNCHANGED <<redisVars, mongoVars, consumerVars, historyVars,
                   articles, sorted_articles, published_count>>

\* publish_all: the loop is over, the counts are logged, the process exits
Finish(p) ==
    /\ ppc[p] = "Loop"
    /\ idx[p] = Len(sorted_articles[p])
    /\ Exit(p)
    /\ UNCHANGED <<redisVars, mongoVars, consumerVars, historyVars>>

\* the publisher process dies (kill, power loss, an uncaught sismember error)
\* at any point of its run; Redis keeps the queue and the set
Crash(p) ==
    /\ ppc[p] \in {"Loop", "Checked", "Pushed"}
    /\ midCrash' = IF ppc[p] = "Pushed"
                   THEN [midCrash EXCEPT ![Current(p).id] = @ + 1]
                   ELSE midCrash
    /\ Exit(p)
    /\ UNCHANGED <<redisVars, mongoVars, consumerVars, pushed, runs>>

-----------------------------------------------------------------------------
(* consumer/consumer.py: ArticleScraper, the fetch *)

\* Retry(total=3, ...): the number of retries urllib3 allows
RetryTotal == 3
status_forcelist == {429, 500, 502, 503, 504}

\* what one HTTP attempt meets: a response with a status, or no response
Response(code) == [kind |-> "response", status |-> code]
ConnectionError == [kind |-> "ConnectionError", status |-> 0]
ConnectTimeout == [kind |-> "ConnectTimeout", status |-> 0]

\* the conditions the mounted Retry retries: a forcelisted status, or an
\* attempt that got no response
Retryable(r) == r.kind # "response" \/ r.status \in status_forcelist

\* Mutant of urlopen: total counts the attempts, not the retries
RECURSIVE urlopen_total_attempts(_, _, _)
urlopen_total_attempts(rs, n, total) ==
    LET r == rs[n + 1] IN
    IF Retryable(r)
    THEN IF total - 1 <= 0
         THEN [attempts |-> n + 1,
               raised |-> IF r.kind = "response" THEN "RetryError" ELSE r.kind,
               status |-> 0]
         ELSE urlopen_total_attempts(rs, n + 1, total - 1)
    ELSE [attempts |-> n + 1, raised |-> "", status |-> r.status]

\* HTTPAdapter.send under max_retries: attempt number n + 1 meets rs[n + 1];
\* a retryable outcome decrements the retry count (Retry.increment) and is
\* raised once the count is below zero (Retry.is_exhausted), else retried.
\* total: retries left.
RECURSIVE urlopen(_, _, _)
urlopen(rs, n, total) ==
    LET r == rs[n + 1] IN
    IF Retryable(r)
    THEN IF total - 1 < 0
         THEN [attempts |-> n + 1,
               raised |-> IF r.kind = "response" THEN "RetryError" ELSE r.kind,
               status |-> 0]
         ELSE urlopen(rs, n + 1, total - 1)
    ELSE [attempts |-> n + 1, raised |-> "", status |-> r.status]

\* session.get(url, ...) followed by response.raise_for_status(): a 4xx or
\* 5xx status raises HTTPError
session_get(rs) ==
    LET got == urlopen(rs, 0, RetryTotal) IN
    IF got.raised = "" /\ got.status >= 400 /\ got.status < 600
    THEN [got EXCEPT !.raised = "HTTPError"]
    ELSE got

\* the except clauses of scrape_article: Timeout first, then RequestException
FetchError(raised) ==
    IF raised = "ConnectTimeout" THEN "Request timeout" ELSE "Request error"

\* the result dict of scrape_article when the fetch raised
FailedResult(raised) ==
    [title |-> None, body |-> None, error |-> Some(FetchError(raised))]

-----------------------------------------------------------------------------
(* consumer/consumer.py: ArticleScraper, the extraction *)

\* the minimum content threshold and the body size limit of scrape_article
MinContent == 100
BodyLimit == 5000

\* the elements soup(['script', 'style', 'nav', 'footer', 'header']) finds
NonContent == {"script", "style", "nav", "footer", "header"}

\* A word is a maximal run of non-whitespace characters of the page: n its
\* length, inside the innermost element that matters around it, one of
\* NonContent or "content".
Word(n, tag) == [n |-> n, inside |-> tag]

\* A parsed page (soup): for each title selector (h1, title,
\* [class*="headline"], [class*="title"]) and each body selector (article,
\* main, [class*="content"], body), None when select_one finds no element,
\* else Some(element). A title element is [text, inside]: its stripped text
\* and the element around it. A body element is the sequence of the words
\* under it in document order.
\* A text (a Python str) is [words, trail]: the words, one whitespace
\* character between two of them, and trail whitespace characters at the end.

RECURSIVE Chars(_)
\* the characters of the words of ws
Chars(ws) == IF ws = <<>> THEN 0 ELSE Head(ws).n + Chars(Tail(ws))

\* len(text)
TextLen(t) ==
    Chars(t.words) + (IF t.words = <<>> THEN 0 ELSE Len(t.words) - 1) + t.trail

RECURSIVE Slice(_, _)
\* text[:k] of a text that ends in a word
Slice(ws, k) ==
    IF ws = <<>> \/ k <= 0 THEN [words |-> <<>>, trail |-> 0]
    ELSE IF Head(ws).n >= k
    THEN [words |-> <<[Head(ws) EXCEPT !.n = k]>>, trail |-> 0]
    ELSE IF Tail(ws) = <<>> THEN [words |-> <<Head(ws)>>, trail |-> 0]
    ELSE IF Head(ws).n + 1 = k THEN [words |-> <<Head(ws)>>, trail |-> 1]
    ELSE LET rest == Slice(Tail(ws), k - Head(ws).n - 1)
         IN [words |-> <<Head(ws)>> \o rest.words, trail |-> rest.trail]

\* text.split(): the whitespace-separated tokens
split(t) == t.words

\* Mutant of decompose: nothing is removed
decompose_nothing(e) == e

\* element.decompose() for every NonContent element: what is left of a body
\* element
decompose(e) ==
    LET IsContent(w) == w.inside \notin NonContent
    IN IF e = None THEN None ELSE Some(SelectSeq(e[1], IsContent))

\* elem.get_text(separator=' ', strip=True) of a body element
get_text(e) == IF e = None THEN None ELSE Some([words |-> e[1], trail |-> 0])

\* the title loop: the first selector whose element has non-empty text
RECURSIVE TitleLoop(_, _)
TitleLoop(elems, i) ==
    IF i > Len(elems) THEN None
    ELSE IF elems[i] # None /\ elems[i][1].text # "" THEN Some(elems[i][1].text)
    ELSE TitleLoop(elems, i + 1)

\* Mutant of BodyLoop: body is assigned only while it is None
RECURSIVE BodyLoopKeepsFirst(_, _, _)
BodyLoopKeepsFirst(elems, i, body) ==
    IF i > Len(elems) THEN body
    ELSE IF elems[i] = None THEN BodyLoopKeepsFirst(elems, i + 1, body)
    ELSE IF TextLen(get_text(elems[i])[1]) > MinContent THEN get_text(elems[i])
    ELSE BodyLoopKeepsFirst(elems, i + 1, IF body = None THEN get_text(elems[i]) ELSE body)

\* the body loop: body is assigned for every selector that finds an element,
\* and the loop breaks at the first one longer than the threshold
RECURSIVE BodyLoop(_, _, _)
BodyLoop(elems, i, body) ==
    IF i > Len(elems) THEN body
    ELSE IF elems[i] = None THEN BodyLoop(elems, i + 1, body)
    ELSE IF TextLen(get_text(elems[i])[1]) > MinContent THEN get_text(elems[i])
    ELSE BodyLoop(elems, i + 1, get_text(elems[i]))

\* "not body": None or the empty string
Falsy(body) == body = None \/ TextLen(body[1]) = 0

\* Mutant of ValidateError: the title check runs last
ValidateErrorTitleLast(title, body) ==
    IF title = None THEN Some("Could not extract title")
    ELSE IF Falsy(body) \/ TextLen(body[1]) < MinContent
    THEN Some("Could not extract sufficient body content")
    ELSE None

\* the validation: the body check runs after the title check and overwrites
\* its error
ValidateError(title, body) ==
    IF Falsy(body) \/ TextLen(body[1]) < MinContent
    THEN Some("Could not extract sufficient body content")
    ELSE IF title = None THEN Some("Could not extract title")
    ELSE None

\* Mutant of Truncate: the body is kept whole
TruncateKeepsAll(body) == IF Falsy(body) THEN None ELSE body

\* body[:5000] if body else None
Truncate(body) ==
    IF Falsy(body) THEN None ELSE Some(Slice(body[1].words, BodyLimit))

\* the result dict of scrape_article for a fetched page: the title is
\* extracted first, then the NonContent elements are removed, then the body
\* is extracted
Extracted(page) ==
    LET title == TitleLoop(page.title_elems, 1)
        stripped == [k \in 1..Len(page.body_elems) |-> decompose(page.body_elems[k])]
        body == BodyLoop(stripped, 1, None)
    IN [title |-> title, body |-> Truncate(body), error |-> ValidateError(title, body)]

-----------------------------------------------------------------------------
(* consumer/consumer.py: ArticleConsumer *)

\* the collection holds a document with this id
HasRecord(st, i) == \E k \in 1..Len(st) : st[k].id = i

\* the number of documents with this id
Records(st, i) == Cardinality({k \in 1..Len(st) : st[k].id = i})

\* Mutant of Document: word_count counts the characters of the body
DocumentCountsChars(t, sd) ==
    [id |-> Get(t, "id", None),
     priority |-> IF "priority" \in DOMAIN t THEN Some(t.priority) ELSE None,
     title |-> sd.title,
     body |-> sd.body,
     error |-> sd.error,
     word_count |-> IF Falsy(sd.body) THEN 0 ELSE TextLen(sd.body[1])]

\* the document process_task builds from the task and scraped_data
Document(t, sd) ==
    [id |-> Get(t, "id", None),
     priority |-> IF "priority" \in DOMAIN t THEN Some(t.priority) ELSE None,
     title |-> sd.title,
     body |-> sd.body,
     error |-> sd.error,
     word_count |-> IF Falsy(sd.body) THEN 0 ELSE Len(split(sd.body[1]))]

\* Mutant of insert_one: the document replaces the one of the same id
insert_one_replaces(st, doc) ==
    IF HasRecord(st, doc.id)
    THEN [raised |-> "",
          store |-> [k \in 1..Len(st) |-> IF st[k].id = doc.id THEN doc ELSE st[k]]]
    ELSE [raised |-> "", store |-> Append(st, doc)]

\* Mutant of insert_one: the collection has no unique index
insert_one_no_index(st, doc) == [raised |-> "", store |-> Append(st, doc)]

\* collection.insert_one under the unique index on 'id' created in __init__:
\* the outcome for a reachable store, "DuplicateKeyError" leaving it unchanged
insert_one(st, doc) ==
    IF HasRecord(st, doc.id)
    THEN [raised |-> "DuplicateKeyError", store |-> st]
    ELSE [raised |-> "", store |-> Append(st, doc)]

\* the consumer is between blpop and the end of process_task
Processing(c) == cpc[c] \in {"Fetching", "Extracting", "Persisting"}

\* process_task is over and its locals are gone. value: what it returned,
\* "None" when it was left by an exception
Return(c, value) ==
    /\ ret' = [ret EXCEPT ![c] = value]
    /\ task' = [task EXCEPT ![c] = None]
    /\ seen' = [seen EXCEPT ![c] = <<>>]
    /\ soup' = [soup EXCEPT ![c] = None]
    /\ scraped' = [scraped EXCEPT ![c] = None]

\* another client of Redis pushes a payload that is no task onto the list
ForeignPush ==
    /\ Cardinality({k \in 1..Len(queue) : Malformed(queue[k])}) < MaxForeign
    /\ \E s \in {NoJson, NoObject} : queue' = Append(queue, s)
    /\ UNCHANGED <<published, mongoVars, publisherVars, consumerVars, historyVars>>

\* Mutant of BLPopMalformed: the exception is not caught and ends run
BLPopMalformedFatal(c) ==
    /\ cpc[c] = "Idle"
    /\ queue # <<>>
    /\ Malformed(Head(queue))
    /\ queue' = Tail(queue)
    /\ Return(c, "False")
    /\ cpc' = [cpc EXCEPT ![c] = "ShuttingDown"]
    /\ UNCHANGED <<published, mongoVars, publisherVars, historyVars>>

\* run: blpop returns a payload that is no task; process_task raises in
\* json.loads or in task.get, its except clause logs and returns False, and
\* run loops
BLPopMalformed(c) ==
    /\ cpc[c] = "Idle"
    /\ queue # <<>>
    /\ Malformed(Head(queue))
    /\ queue' = Tail(queue)
    /\ Return(c, "False")
    /\ UNCHANGED <<published, mongoVars, publisherVars, historyVars, cpc>>

\* run: blpop(queue_name, timeout=1) returns the head of the list, and
\* process_task starts on it
BLPop(c) ==
    /\ cpc[c] = "Idle"
    /\ queue # <<>>
    /\ ~Malformed(Head(queue))
    /\ task' = [task EXCEPT ![c] = Some(Head(queue))]
    /\ queue' = Tail(queue)
    /\ ret' = [ret EXCEPT ![c] = "None"]
    /\ cpc' = [cpc EXCEPT ![c] = "Fetching"]
    /\ UNCHANGED <<published, mongoVars, publisherVars, historyVars,
                   seen, soup, scraped>>

\* run: blpop times out on the empty list and the loop goes round
BLPopTimeout(c) ==
    /\ cpc[c] = "Idle"
    /\ queue = <<>>
    /\ UNCHANGED vars

\* run: blpop raises (Redis unreachable); except Exception sleeps 5 seconds
BLPopFail(c) ==
    /\ cpc[c] = "Idle"
    /\ cpc' = [cpc EXCEPT ![c] = "Backoff"]
    /\ UNCHANGED <<redisVars, mongoVars, publisherVars, historyVars,
                   task, seen, soup, scraped, ret>>

\* run: time.sleep(5) is over
BackoffEnd(c) ==
    /\ cpc[c] = "Backoff"
    /\ cpc' = [cpc EXCEPT ![c] = "Idle"]
    /\ UNCHANGED <<redisVars, mongoVars, publisherVars, historyVars,
                   task, seen, soup, scraped, ret>>

\* scrape_article: session.get and raise_for_status against a server that
\* answers the attempts with rs; a failure fills the error of the result
Fetch(c, RespSeqs) ==
    /\ cpc[c] = "Fetching"
    /\ \E rs \in RespSeqs :
        LET got == session_get(rs) IN
        /\ seen' = [seen EXCEPT ![c] = SubSeq(rs, 1, got.attempts)]
        /\ IF got.raised = ""
           THEN /\ cpc' = [cpc EXCEPT ![c] = "Extracting"]
                /\ UNCHANGED scraped
           ELSE /\ cpc' = [cpc EXCEPT ![c] = "Persisting"]
                /\ scraped' = [scraped EXCEPT ![c] = Some(FailedResult(got.raised))]
    /\ UNCHANGED <<redisVars, mongoVars, publisherVars, historyVars,
                   task, soup, ret>>

\* scrape_article: the response content is parsed and the fields extracted
Extract(c, Pages) ==
    /\ cpc[c] = "Extracting"
    /\ \E page \in Pages :
        /\ soup' = [soup EXCEPT ![c] = Some(page)]
        /\ scraped' = [scraped EXCEPT ![c] = Some(Extracted(page))]
    /\ cpc' = [cpc EXCEPT ![c] = "Persisting"]
    /\ UNCHANGED <<redisVars, mongoVars, publisherVars, historyVars,
                   task, seen, ret>>

\* Mutant of InsertOne: a store failure is not caught and ends run
InsertOneFatal(c) ==
    /\ cpc[c] = "Persisting"
    /\ LET doc == Document(json_loads(task[c][1]), scraped[c][1])
           res == insert_one(store, doc)
       IN IF storeUp
          THEN /\ store' = res.store
               /\ Return(c, "True")
               /\ cpc' = [cpc EXCEPT ![c] = "Idle"]
          ELSE /\ UNCHANGED store
               /\ Return(c, "False")
               /\ cpc' = [cpc EXCEPT ![c] = "ShuttingDown"]
    /\ UNCHANGED <<redisVars, storeUp, publisherVars, historyVars>>

\* process_task: insert_one(document). A duplicate key error is swallowed and
\* True returned; any other store failure is re-raised into the outer except
\* clause, which returns False. run then loops.
InsertOne(c) ==
    /\ cpc[c] = "Persisting"
    /\ LET doc == Document(json_loads(task[c][1]), scraped[c][1])
           res == insert_one(store, doc)
       IN IF storeUp
          THEN /\ store' = res.store
               /\ Return(c, "True")
          ELSE /\ UNCHANGED store
               /\ Return(c, "False")
    /\ cpc' = [cpc EXCEPT ![c] = "Idle"]
    /\ UNCHANGED <<redisVars, storeUp, publisherVars, historyVars>>

\* SIGINT reaches the consumer process: KeyboardInterrupt is raised at the
\* statement being executed. It is no Exception, so neither scrape_article
\* nor process_task catches it; run's except KeyboardInterrupt breaks the
\* loop (during the sleep of the except Exception clause it ends run as well).
KeyboardInterrupt(c) ==
    /\ cpc[c] # "ShuttingDown"
    /\ cpc' = [cpc EXCEPT ![c] = "ShuttingDown"]
    /\ Return(c, "None")
    /\ UNCHANGED <<redisVars, mongoVars, publisherVars, historyVars>>

\* MongoDB becomes unreachable, and reachable again
StoreDown ==
    /\ storeUp
    /\ storeUp' = FALSE
    /\ UNCHANGED <<redisVars, store, publisherVars, consumerVars, historyVars>>

StoreBack ==
    /\ ~storeUp
    /\ storeUp' = TRUE
    /\ UNCHANGED <<redisVars, store, publisherVars, consumerVars, historyVars>>

-----------------------------------------------------------------------------
(* Inputs *)

RECURSIVE SeqsUpTo(_, _)
\* the non-empty sequences over S of length at most n
SeqsUpTo(S, n) ==
    IF n = 0 THEN {}
    ELSE LET shorter == SeqsUpTo(S, n - 1)
         IN {<<x>> : x \in S} \cup shorter \cup {Append(s, x) : s \in shorter, x \in S}

\* batches of the pipeline specifications: one item, of any id; an id comes
\* to the queue again through further runs
PipeBatches == {<<Article(i, 1)>> : i \in Ids}
\* batches of the runs that follow one another: every id, one priority
SeqBatches == SeqsUpTo({Article(i, 1) : i \in Ids}, SeqBatch)
\* batches of the counting specification: an id under two priorities, and
\* another id
CountBatches == SeqsUpTo({Article("a", 1), Article("a", 2), Article("b", 1)}, SeqBatch)

\* batches of the ordering specification: explicit priorities on both sides
\* of the default, and descriptors without a priority
SortPriorities == {1, 3, 5, 999, 1000}
SortBatches ==
    SeqsUpTo({Article(i, p) : i \in Ids, p \in SortPriorities}
             \cup {ArticleNoPriority(i) : i \in Ids}, MaxSortBatch)

\* servers: what they answer to the attempts of one fetch, in order
Answers == {Response(200), Response(404), Response(503), ConnectionError, ConnectTimeout}
AllRespSeqs == [1..MaxResp -> Answers]
PipeRespSeqs == {[k \in 1..MaxResp |-> Response(200)], [k \in 1..MaxResp |-> Response(404)]}
\* the servers of the extraction specification: one that serves the page, one
\* that has none, one that never answers
ExtractRespSeqs == PipeRespSeqs \cup {[k \in 1..MaxResp |-> ConnectTimeout]}

\* texts of a page, by their length in characters: words in content
Text50 == <<Word(50, "content")>>
Text100 == <<Word(49, "content"), Word(50, "content")>>
Text101 == <<Word(50, "content"), Word(50, "content")>>
Text5000 == <<Word(2499, "content"), Word(2500, "content")>>
Text5001 == <<Word(2500, "content"), Word(2500, "content")>>
Text6000 == <<Word(2999, "content"), Word(3000, "content")>>
\* 6000 characters, the 5000th being the whitespace after the first word
Text6000Gap == <<Word(4999, "content"), Word(1000, "content")>>
\* 50 characters of content after a navigation bar of 60
NavText50 == <<Word(60, "nav"), Word(50, "content")>>
\* 101 characters of content around an inline script of 30
ScriptText101 == <<Word(50, "content"), Word(30, "script"), Word(50, "content")>>

\* pages: the document body holds the other body candidates, so it has no
\* fewer characters under it than they have
ArticleElem ==
    {None} \cup {Some(t) : t \in {<<>>, Text50, NavText50, Text101, ScriptText101,
                                  Text5000, Text5001, Text6000, Text6000Gap}}
MainElem == {None} \cup {Some(t) : t \in {Text50, Text100}}
ContentElem == {None} \cup {Some(t) : t \in {Text50, Text101}}
BodyElem == ArticleElem \cup MainElem \cup ContentElem
RawLen(e) == IF e = None THEN 0 ELSE TextLen(get_text(e)[1])
BodyElems ==
    {b \in ArticleElem \X MainElem \X ContentElem \X BodyElem :
        \A k \in 1..3 : b[k] # None => b[4] # None /\ RawLen(b[4]) >= RawLen(b[k])}
TitleElem(s, tag) == Some([text |-> s, inside |-> tag])
TitleElems ==
    {<<h, t, hl, tc>> :
        h \in {None, TitleElem("", "content"), TitleElem("h1", "content"),
               TitleElem("site name", "header")},
        t \in {None, TitleElem("title", "content")},
        hl \in {None, TitleElem("headline", "content")},
        tc \in {None, TitleElem("titleclass", "content")}}
AllPages == {[title_elems |-> t, body_elems |-> b] : t \in TitleElems, b \in BodyElems}
PipePages ==
    {[title_elems |-> <<TitleElem("h1", "content"), None, None, None>>,
      body_elems |-> <<Some(Text101), None, None, Some(Text101)>>]}

-----------------------------------------------------------------------------
(* Specifications *)

Init ==
    /\ queue = <<>>
    /\ published = {}
    /\ store = <<>>
    /\ storeUp = TRUE
    /\ ppc = [p \in Producers |-> "Down"]
    /\ articles = [p \in Producers |-> <<>>]
    /\ sorted_articles = [p \in Producers |-> <<>>]
    /\ idx = [p \in Producers |-> 0]
    /\ published_count = [p \in Producers |-> 0]
    /\ skipped_count = [p \in Producers |-> 0]
    /\ cpc = [c \in Consumers |-> "Idle"]
    /\ task = [c \in Consumers |-> None]
    /\ seen = [c \in Consumers |-> <<>>]
    /\ soup = [c \in Consumers |-> None]
    /\ scraped = [c \in Consumers |-> None]
    /\ ret = [c \in Consumers |-> "None"]
    /\ pushed = [i \in Ids |-> 0]
    /\ midCrash = [i \in Ids |-> 0]
    /\ runs = 0

\* The pipeline with everything failing: a publisher whose runs crash and
\* meet Redis errors, consumers racing on the queue and the store, stop
\* signals, Redis and store outages
Next ==
    \/ \E p \in {"p1"} :
        \/ Run(p, PipeBatches, FALSE, MaxRuns)
        \/ SIsMember(p)
        \/ RPush(p)
        \/ RPushFail(p)
        \/ SAdd(p)
        \/ SAddFail(p)
        \/ Finish(p)
        \/ Crash(p)
    \/ \E c \in Consumers :
        \/ BLPop(c)
        \/ BLPopTimeout(c)
        \/ BLPopFail(c)
        \/ BackoffEnd(c)
        \/ Fetch(c, PipeRespSeqs)
        \/ Extract(c, PipePages)
        \/ InsertOne(c)
        \/ KeyboardInterrupt(c)
    \/ StoreDown
    \/ StoreBack

Spec == Init /\ [][Next]_vars

\* Publisher processes running concurrently, nothing failing
NextConc ==
    \/ \E p \in Producers :
        \/ Run(p, PipeBatches, FALSE, MaxRuns)
        \/ SIsMember(p)
        \/ RPush(p)
        \/ SAdd(p)
        \/ Finish(p)
    \/ \E c \in Consumers :
        \/ BLPop(c)
        \/ BLPopTimeout(c)
        \/ Fetch(c, PipeRespSeqs)
        \/ Extract(c, PipePages)
        \/ InsertOne(c)

SpecConc == Init /\ [][NextConc]_vars

\* Publisher runs one after another, each to completion, nothing failing
NextSeq ==
    \/ \E p \in {"p1"} :
        \/ Run(p, SeqBatches, TRUE, SeqRuns)
        \/ SIsMember(p)
        \/ RPush(p)
        \/ SAdd(p)
        \/ Finish(p)
    \/ \E c \in Consumers :
        \/ BLPop(c)
        \/ BLPopTimeout(c)
        \/ Fetch(c, PipeRespSeqs)
        \/ Extract(c, PipePages)
        \/ InsertOne(c)

SpecSeq == Init /\ [][NextSeq]_vars

\* Publisher runs one after another, a run ending normally or in a crash
NextCrash ==
    \/ \E p \in {"p1"} :
        \/ Run(p, SeqBatches, TRUE, SeqRuns)
        \/ SIsMember(p)
        \/ RPush(p)
        \/ SAdd(p)
        \/ Finish(p)
        \/ Crash(p)
    \/ \E c \in Consumers :
        \/ BLPop(c)
        \/ BLPopTimeout(c)
        \/ Fetch(c, PipeRespSeqs)
        \/ Extract(c, PipePages)
        \/ InsertOne(c)

SpecCrash == Init /\ [][NextCrash]_vars

\* One publisher over batches of mixed priorities
NextSort ==
    \/ Run("p1", SortBatches, TRUE, 1)
    \/ SIsMember("p1")
    \/ RPush("p1")
    \/ SAdd("p1")
    \/ Finish("p1")

SpecSort == Init /\ [][NextSort]_vars

\* Publisher processes running concurrently, their runs crashing and
\* meeting Redis errors; nothing is consumed
NextProd ==
    \E p \in Producers :
        \/ Run(p, PipeBatches, FALSE, MaxRuns)
        \/ SIsMember(p)
        \/ RPush(p)
        \/ RPushFail(p)
        \/ SAdd(p)
        \/ SAddFail(p)
        \/ Finish(p)
        \/ Crash(p)

SpecProd == Init /\ [][NextProd]_vars

\* Publisher runs one after another, each to the end of its loop, meeting
\* Redis errors in rpush and sadd
NextCount ==
    \E p \in {"p1"} :
        \/ Run(p, CountBatches, TRUE, MaxRuns)
        \/ SIsMember(p)
        \/ RPush(p)
        \/ RPushFail(p)
        \/ SAdd(p)
        \/ SAddFail(p)
        \/ Finish(p)

SpecCount == Init /\ [][NextCount]_vars

\* One publisher and one consumer, against every server
NextFetch ==
    \/ Run("p1", PipeBatches, TRUE, 1)
    \/ SIsMember("p1")
    \/ RPush("p1")
    \/ SAdd("p1")
    \/ Finish("p1")
    \/ BLPop("c1")
    \/ BLPopTimeout("c1")
    \/ Fetch("c1", AllRespSeqs)
    \/ Extract("c1", PipePages)
    \/ InsertOne("c1")

SpecFetch == Init /\ [][NextFetch]_vars

\* One publisher and one consumer, against every page
NextExtract ==
    \/ Run("p1", PipeBatches, TRUE, 1)
    \/ SIsMember("p1")
    \/ RPush("p1")
    \/ SAdd("p1")
    \/ Finish("p1")
    \/ BLPop("c1")
    \/ BLPopTimeout("c1")
    \/ Fetch("c1", ExtractRespSeqs)
    \/ Extract("c1", AllPages)
    \/ InsertOne("c1")

SpecExtract == Init /\ [][NextExtract]_vars

\* The pipeline on a queue that other clients push payloads to
NextForeign ==
    \/ \E p \in {"p1"} :
        \/ Run(p, PipeBatches, FALSE, MaxRuns)
        \/ SIsMember(p)
        \/ RPush(p)
        \/ SAdd(p)
        \/ Finish(p)
    \/ ForeignPush
    \/ \E c \in Consumers :
        \/ BLPop(c)
        \/ BLPopMalformed(c)
        \/ BLPopTimeout(c)
        \/ Fetch(c, PipeRespSeqs)
        \/ Extract(c, PipePages)
        \/ InsertOne(c)

SpecForeign == Init /\ [][NextForeign]_vars

-----------------------------------------------------------------------------
(* Claims *)

\* the id of the item a consumer is processing
TaskId(c) == json_loads(task[c][1]).id

\* C1: in every reachable state the store holds at most one record per id,
\* however many times the id was delivered and however the consumers'
\* fetch and insert steps interleave.
C1_OneRecordPerId == \A i \in Ids : Records(store, i) <= 1

\* C1 witness: one id was pushed twice, nothing else was pushed, both
\* deliveries were popped and both consumers have finished a process_task
\* call: the store holds the id once.
C1_Witness ==
    \E i \in Ids :
        /\ pushed[i] = 2
        /\ \A j \in Ids \ {i} : pushed[j] = 0
        /\ queue = <<>>
        /\ \A c \in Consumers : cpc[c] = "Idle" /\ ret[c] = "True"
        /\ Records(store, i) = 1

\* publish_all has gone through its whole batch
LoopOver(p) ==
    ppc[p] = "Loop" /\ sorted_articles[p] # <<>> /\ idx[p] = Len(sorted_articles[p])

\* the calls of publish_article a publisher has completed in its run
Completed(p) == SubSeq(sorted_articles[p], 1, idx[p])

\* C2: with publisher runs following one another and nothing failing, an id
\* is pushed at most once, every id a completed publish_article call was
\* given has been pushed exactly once, and a call for an id that is in the
\* marker set returns False (counted as skipped) and changes neither the
\* queue nor the marker set.
C2_PushedOnce ==
    /\ [](\A i \in Ids : pushed[i] <= 1 /\ (i \in published => pushed[i] = 1))
    /\ [](\A p \in Producers : \A k \in 1..Len(Completed(p)) :
            pushed[Completed(p)[k].id] = 1)
    /\ [][\A p \in Producers :
            (/\ ppc[p] = "Loop"
             /\ idx[p] < Len(sorted_articles[p])
             /\ Current(p).id \in published
             /\ idx'[p] # idx[p])
            => /\ skipped_count'[p] = skipped_count[p] + 1
               /\ published_count'[p] = published_count[p]
               /\ queue' = queue
               /\ published' = published
               /\ pushed' = pushed]_vars

\* C2 witness: a second or later run has come to the end of its loop having
\* skipped every item,
\* each of which is in the queue history once.
C2_Witness ==
    \E p \in Producers :
        /\ runs >= 2
        /\ LoopOver(p)
        /\ published_count[p] = 0
        /\ skipped_count[p] = Len(sorted_articles[p])
        /\ \A k \in 1..Len(sorted_articles[p]) : pushed[sorted_articles[p][k].id] = 1

\* C3: when publisher processes run concurrently (nothing failing), at most
\* one of them pushes a given id: the membership check and the push+mark act
\* as one atomic check-and-set.
C3_AtMostOnePusher == \A i \in Ids : pushed[i] <= 1

\* C4: with runs following one another, every crash between the rpush and
\* the sadd of an id costs at most one more push of that id, so one such
\* crash means at most two pushes in total; and the store holds at most one
\* record of the id.
C4_CrashDuplicatesOnce ==
    \A i \in Ids :
        /\ pushed[i] <= 1 + midCrash[i]
        /\ midCrash[i] = 1 => pushed[i] <= 2
        /\ Records(store, i) <= 1

\* C4 witness: one crash between push and mark of an id, the id pushed again
\* and marked by a later run, both entries consumed, one record.
C4_Witness ==
    \E i \in Ids :
        /\ midCrash[i] = 1
        /\ pushed[i] = 2
        /\ i \in published
        /\ queue = <<>>
        /\ \A c \in Consumers : cpc[c] = "Idle"
        /\ Records(store, i) = 1

\* C5: a consumer that has popped a well-formed item leaves the processing
\* of it, with the store available, only with a record of the item's id in
\* the store, whatever happens meanwhile (a stop signal included).
C5_ClaimedItemRecorded ==
    [][\A c \in Consumers :
        (/\ Processing(c)
         /\ cpc'[c] \notin {"Fetching", "Extracting", "Persisting"}
         /\ storeUp)
        => HasRecord(store', TaskId(c))]_vars

\* C6: a consumer stops only between iterations (idle in the queue poll, or
\* in the delay that follows a failed iteration), never while it holds a
\* claimed item in Fetching, Extracting or Persisting.
C6_StopOnlyWhenIdle ==
    [][\A c \in Consumers :
        (cpc[c] # "ShuttingDown" /\ cpc'[c] = "ShuttingDown")
        => cpc[c] \in {"Idle", "Backoff"}]_vars

\* C7: when process_task returns from the insert, the consumer is back at
\* the queue poll: after a store failure (not a duplicate key) it returned
\* False and changed neither store nor queue; with the store available,
\* also after earlier failures of this consumer, it returned True and the
\* item's record is in the store.
C7_StoreFailureNotFatal ==
    [][\A c \in Consumers :
        (cpc[c] = "Persisting" /\ ret'[c] # "None")
        => /\ cpc'[c] = "Idle"
           /\ IF storeUp
              THEN ret'[c] = "True" /\ HasRecord(store', TaskId(c))
              ELSE ret'[c] = "False" /\ store' = store /\ queue' = queue]_vars

\* C7 witness: two ids were pushed once each and one consumer popped both,
\* the other consumer never popped anything. The first id has no record:
\* its insert failed on the store. The consumer went on, and its last call,
\* with the store back, returned True and recorded the second id.
C7_Witness ==
    \E c \in Consumers : \E i, j \in Ids :
        /\ i # j
        /\ pushed[i] = 1 /\ pushed[j] = 1
        /\ queue = <<>>
        /\ cpc[c] = "Idle" /\ ret[c] = "True"
        /\ \A d \in Consumers \ {c} : cpc[d] = "Idle" /\ ret[d] = "None"
        /\ storeUp
        /\ ~HasRecord(store, i)
        /\ HasRecord(store, j)

\* the HTTP attempts of the fetch a consumer has made for its task
Attempts(c) == Len(seen[c])

\* the outcomes the claim calls retryable
ClaimedRetryable(r) ==
    r.kind \in {"ConnectionError", "ConnectTimeout"}
    \/ (r.kind = "response" /\ r.status \in {429, 500, 502, 503, 504})

\* the fetch of the consumer's task ended in a failure
FetchFailed(c) ==
    /\ cpc[c] = "Persisting"
    /\ scraped[c][1].error \in {Some("Request timeout"), Some("Request error")}
    /\ scraped[c][1].title = None
    /\ scraped[c][1].body = None

\* the fetch of the consumer's task is over
Fetched(c) == cpc[c] \in {"Extracting", "Persisting"}

\* C8 as claimed: one fetch performs at most 3 HTTP attempts.
C8_AtMostThreeAttempts == \A c \in Consumers : Attempts(c) <= 3

\* C8 as amended: one fetch performs at most 4 HTTP attempts (the first and
\* up to 3 retries). Only retryable outcomes are followed by another
\* attempt; a retryable outcome is retried until the 4th attempt and then
\* reported as a failure; 503, 503, 200 succeeds on the 3rd attempt; a 404
\* is never retried, so a server answering 404 is asked once.
C8_AtMostFourAttempts ==
    \A c \in Consumers :
        Fetched(c) =>
            LET n == Attempts(c) IN
            /\ n >= 1 /\ n <= 4
            /\ \A k \in 1..(n - 1) : ClaimedRetryable(seen[c][k])
            /\ ClaimedRetryable(seen[c][n]) => n = 4 /\ FetchFailed(c)
            /\ seen[c][n] = Response(200) => ~FetchFailed(c)
            /\ seen[c][n] = Response(404) => FetchFailed(c)
            /\ seen[c][1] = Response(404) => n = 1

\* C8 witness: the server answered 503, 503, 200 and the fetch succeeded on
\* the third attempt.
C8_Witness ==
    \E c \in Consumers :
        /\ cpc[c] = "Extracting"
        /\ seen[c] = <<Response(503), Response(503), Response(200)>>

\* what publish_all has offered to publish_article so far in its run
Offered(p) ==
    SubSeq(sorted_articles[p], 1,
           idx[p] + (IF ppc[p] \in {"Checked", "Pushed"} THEN 1 ELSE 0))

HasPriority(x) == "priority" \in DOMAIN x

\* s is a prefix of t
IsPrefix(s, t) == Len(s) <= Len(t) /\ s = SubSeq(t, 1, Len(s))

\* the items of s that have priority k
WithPriority(s, k) ==
    LET Test(x) == HasPriority(x) /\ x.priority = k IN SelectSeq(s, Test)

\* the items of s that have no priority
WithoutPriority(s) ==
    LET Test(x) == ~HasPriority(x) IN SelectSeq(s, Test)

\* C9: the items are offered, and the pushed ones queued, in ascending
\* order of priority; the offered items of one priority are the batch's
\* items of that priority in input order; a run at the end of its loop has
\* offered the whole batch. An item without a priority is compared with no other item
\* here; among themselves such items keep their input order.
C9_OfferedByPriority ==
    \A p \in Producers :
        /\ \A i, j \in 1..Len(Offered(p)) :
            (i < j /\ HasPriority(Offered(p)[i]) /\ HasPriority(Offered(p)[j]))
            => Offered(p)[i].priority <= Offered(p)[j].priority
        /\ \A k \in SortPriorities :
            IsPrefix(WithPriority(Offered(p), k), WithPriority(articles[p], k))
        /\ IsPrefix(WithoutPriority(Offered(p)), WithoutPriority(articles[p]))
        /\ LoopOver(p) =>
            /\ Len(Offered(p)) = Len(articles[p])
            /\ \A k \in SortPriorities :
                WithPriority(Offered(p), k) = WithPriority(articles[p], k)
        /\ \A i, j \in 1..Len(queue) :
            (i < j /\ HasPriority(json_loads(queue[i])) /\ HasPriority(json_loads(queue[j])))
            => json_loads(queue[i]).priority <= json_loads(queue[j]).priority

\* C9 witness: a batch with priorities 5, 1, 3 has been offered as 1, 3, 5.
C9_Witness ==
    /\ LoopOver("p1")
    /\ Len(articles["p1"]) = 3
    /\ \A k \in 1..3 : HasPriority(articles["p1"][k])
    /\ [k \in 1..3 |-> articles["p1"][k].priority] = <<5, 1, 3>>
    /\ [k \in 1..3 |-> sorted_articles["p1"][k].priority] = <<1, 3, 5>>

\* C10: for a fetched page the error of the result is decided by the title
\* and the body length alone: none iff there is a title and a body of at
\* least 100 characters; the title error iff the title is absent and the
\* body sufficient; the body error iff the body is absent or shorter than
\* 100, whether or not there is a title.
C10_Classification ==
    \A c \in Consumers :
        (cpc[c] = "Persisting" /\ seen[c][Len(seen[c])] = Response(200)) =>
            LET r == scraped[c][1]
                sufficient == r.body # None /\ TextLen(r.body[1]) >= 100
            IN /\ r.error = None <=> (r.title # None /\ sufficient)
               /\ r.error = Some("Could not extract title")
                    <=> (r.title = None /\ sufficient)
               /\ r.error = Some("Could not extract sufficient body content")
                    <=> ~sufficient

\* C10 witness: a fetched page with neither a title nor a sufficient body is
\* classified as body-missing.
C10_Witness ==
    \E c \in Consumers :
        /\ cpc[c] = "Persisting"
        /\ seen[c] = <<Response(200)>>
        /\ scraped[c][1].title = None
        /\ scraped[c][1].body # None
        /\ TextLen(scraped[c][1].body[1]) = 50
        /\ scraped[c][1].error = Some("Could not extract sufficient body content")

\* the text the body loop selected from the consumer's parsed page
Selected(c) ==
    LET elems == soup[c][1].body_elems
    IN BodyLoop([k \in 1..Len(elems) |-> decompose(elems[k])], 1, None)

\* text a is text b cut after some character
IsCutOf(a, b) ==
    /\ Len(a.words) <= Len(b.words)
    /\ \A k \in 1..Len(a.words) :
        /\ a.words[k].inside = b.words[k].inside
        /\ IF k < Len(a.words) THEN a.words[k].n = b.words[k].n
           ELSE a.words[k].n <= b.words[k].n
    /\ a.trail \in {0, 1}

\* C11: the body of the result, and of every stored record, is never longer
\* than 5000 characters; it is the selected text cut after its 5000th
\* character, with exactly 5000 characters, when the selected text is
\* longer, and the selected text itself when that has 5000 characters or
\* fewer.
C11_BodyTruncated ==
    /\ \A k \in 1..Len(store) :
        store[k].body # None => TextLen(store[k].body[1]) <= 5000
    /\ \A c \in Consumers :
        (cpc[c] = "Persisting" /\ soup[c] # None) =>
            LET r == scraped[c][1]
                sel == Selected(c)
            IN /\ r.body # None => TextLen(r.body[1]) <= 5000
               /\ (sel # None /\ TextLen(sel[1]) > 5000) =>
                    /\ r.body # None
                    /\ TextLen(r.body[1]) = 5000
                    /\ IsCutOf(r.body[1], sel[1])
               /\ (sel # None /\ TextLen(sel[1]) >= 1 /\ TextLen(sel[1]) <= 5000) =>
                    r.body = sel

\* C11 witness: a selected text of 6000 characters whose 5000th is the
\* whitespace after the first word came out with 5000 characters, that
\* whitespace the last of them.
C11_Witness ==
    \E c \in Consumers :
        /\ cpc[c] = "Persisting" /\ soup[c] # None
        /\ Selected(c) # None /\ TextLen(Selected(c)[1]) = 6000
        /\ scraped[c][1].body # None
        /\ TextLen(scraped[c][1].body[1]) = 5000
        /\ scraped[c][1].body[1].trail = 1

\* C12: an iteration that ends in a store failure (process_task leaves the
\* insert with False) or in a queue failure takes the consumer into the
\* backoff delay, so it makes no further claim before the delay is over.
C12_BackoffAfterFailure ==
    [][\A c \in Consumers :
        (\/ cpc[c] = "Persisting" /\ ret'[c] = "False"
         \/ cpc[c] = "Idle" /\ cpc'[c] \notin {"Idle", "Fetching", "ShuttingDown"})
        => cpc'[c] = "Backoff"]_vars

\* C13: the step that pops a malformed payload leaves the store unchanged,
\* takes the payload off the queue without putting it back, starts no fetch
\* (no consumer gets a task or leaves Idle for Fetching) and ends no
\* consumer: every consumer is where it was, the one that popped is Idle
\* with process_task having returned False. No consumer step ever adds to
\* the queue.
C13_MalformedDropped ==
    /\ [][(queue # <<>> /\ Malformed(Head(queue)) /\ Len(queue') < Len(queue))
          => /\ queue' = Tail(queue)
             /\ store' = store
             /\ cpc' = cpc
             /\ task' = task
             /\ seen' = seen
             /\ \E c \in Consumers : cpc'[c] = "Idle" /\ ret'[c] = "False"]_vars
    /\ [][Len(queue') > Len(queue) => consumerVars' = consumerVars]_vars
    /\ [](\A c \in Consumers : task[c] # None => ~Malformed(task[c][1]))

\* C13 witness: the publisher pushed one item, a consumer dropped a
\* malformed payload (the only way process_task returns False with the
\* store up) and is Idle, the other consumer has recorded the item, the
\* queue is empty and the store holds that one record.
C13_Witness ==
    \E c, d \in Consumers : \E i \in Ids :
        /\ c # d
        /\ cpc[c] = "Idle" /\ ret[c] = "False"
        /\ cpc[d] = "Idle" /\ ret[d] = "True"
        /\ pushed = [j \in Ids |-> IF j = i THEN 1 ELSE 0]
        /\ queue = <<>>
        /\ Len(store) = 1 /\ store[1].id = i

\* C14: when the fetch of a claimed item failed (no page was parsed), the
\* insert that follows with the store up leaves a record of the item's id
\* in the store, and the record it adds has the error populated, no title,
\* no body and word_count 0. In every stored record word_count is the
\* number of whitespace-separated tokens of the body, 0 without a body.
C14_FailedFetchRecorded ==
    /\ [](\A k \in 1..Len(store) :
            store[k].word_count =
                IF store[k].body = None THEN 0 ELSE Len(store[k].body[1].words))
    /\ [][\A c \in Consumers :
            (cpc[c] = "Persisting" /\ soup[c] = None /\ ret'[c] # "None" /\ storeUp)
            => /\ HasRecord(store', TaskId(c))
               /\ ~HasRecord(store, TaskId(c)) =>
                    LET doc == store'[Len(store')] IN
                    /\ Len(store') = Len(store) + 1
                    /\ doc.id = TaskId(c)
                    /\ doc.error \in {Some("Request timeout"), Some("Request error")}
                    /\ doc.title = None
                    /\ doc.body = None
                    /\ doc.word_count = 0]_vars

\* C14 witness: the server never answered, and the store holds the item's
\* record with the timeout error, no title, no body and word_count 0.
C14_Witness ==
    \E i \in Ids :
        /\ pushed[i] = 1
        /\ store = <<[id |-> i, priority |-> Some(1), title |-> None, body |-> None,
                      error |-> Some("Request timeout"), word_count |-> 0]>>

\* a page has been parsed and its fields extracted
Parsed(c) == cpc[c] = "Persisting" /\ soup[c] # None

\* the body selectors that found an element in the consumer's page
Found(c) == {k \in 1..4 : soup[c][1].body_elems[k] # None}

\* the text of the k-th body candidate, taken after the removal of the
\* non-content elements
Candidate(c, k) == get_text(decompose(soup[c][1].body_elems[k]))[1]

\* the body selectors whose candidate is longer than 100 characters
Long(c) == {k \in Found(c) : TextLen(Candidate(c, k)) > 100}

Lowest(S) == CHOOSE k \in S : \A j \in S : k <= j
Highest(S) == CHOOSE k \in S : \A j \in S : k >= j

\* the body of the result is text t, cut to 5000 characters
BodyIs(c, t) ==
    LET r == scraped[c][1] IN
    IF TextLen(t) = 0 THEN r.body = None
    ELSE /\ r.body # None
         /\ IsCutOf(r.body[1], t)
         /\ TextLen(r.body[1]) = IF TextLen(t) > 5000 THEN 5000 ELSE TextLen(t)

\* C15 as claimed: the body is the text of the first candidate, in selector
\* order, longer than 100 characters; if there is none, the text of the
\* first candidate found; no body if no selector found an element.
C15_FallbackFirstFound ==
    \A c \in Consumers :
        Parsed(c) =>
            IF Long(c) # {} THEN BodyIs(c, Candidate(c, Lowest(Long(c))))
            ELSE IF Found(c) # {} THEN BodyIs(c, Candidate(c, Lowest(Found(c))))
            ELSE scraped[c][1].body = None

\* C15 as amended: the body is the text of the first candidate, in selector
\* order, longer than 100 characters; if there is none, the text of the
\* last candidate found; no body if no selector found an element.
C15_FallbackLastFound ==
    \A c \in Consumers :
        Parsed(c) =>
            IF Long(c) # {} THEN BodyIs(c, Candidate(c, Lowest(Long(c))))
            ELSE IF Found(c) # {} THEN BodyIs(c, Candidate(c, Highest(Found(c))))
            ELSE scraped[c][1].body = None

\* C15 witness: the article element has 50 characters, the main element 100,
\* the document body 100; none exceeds 100 and the body of the result has
\* the 100 characters of the last one.
C15_Witness ==
    \E c \in Consumers :
        /\ Parsed(c)
        /\ soup[c][1].body_elems = <<Some(Text50), Some(Text100), None, Some(Text100)>>
        /\ scraped[c][1].body = get_text(Some(Text100))

\* the title selectors whose element, in the consumer's page, has text
TitleFound(c) ==
    {k \in 1..4 : soup[c][1].title_elems[k] # None
                  /\ soup[c][1].title_elems[k][1].text # ""}

\* s is the text of a title element inside a non-content element of the
\* consumer's page, and of no title element outside of those
OnlyInNonContent(c, s) ==
    LET elems == soup[c][1].title_elems IN
    /\ \E k \in TitleFound(c) :
        elems[k][1].text = s /\ elems[k][1].inside \in NonContent
    /\ \A k \in TitleFound(c) :
        elems[k][1].text = s => elems[k][1].inside \in NonContent

\* no word of the body of the result comes from inside a non-content element
BodyOfContent(c) ==
    LET r == scraped[c][1] IN
    r.body # None =>
        \A k \in 1..Len(r.body[1].words) :
            r.body[1].words[k].inside \notin {"script", "style", "nav", "footer", "header"}

\* C16 as claimed: text that occurs only inside a script, style, nav, footer
\* or header element is never the title of the result and never in its body.
C16_NoNonContentText ==
    \A c \in Consumers :
        Parsed(c) =>
            /\ BodyOfContent(c)
            /\ scraped[c][1].title # None => ~OnlyInNonContent(c, scraped[c][1].title[1])

\* C16 as amended: text that occurs only inside a script, style, nav, footer
\* or header element is never in the body of the result; the title is the
\* text of the first title candidate that has text, wherever that element
\* lies, inside a header included.
C16_NoNonContentInBody ==
    \A c \in Consumers :
        Parsed(c) =>
            /\ BodyOfContent(c)
            /\ IF TitleFound(c) = {} THEN scraped[c][1].title = None
               ELSE scraped[c][1].title =
                        Some(soup[c][1].title_elems[Lowest(TitleFound(c))][1].text)

\* C16 witness: the h1 of the page lies in its header and the article holds
\* an inline script between two words of content; the title of the result
\* is the text of that h1 and the body the 101 characters of the two words.
C16_Witness ==
    \E c \in Consumers :
        /\ Parsed(c)
        /\ soup[c][1].title_elems[1] = TitleElem("site name", "header")
        /\ soup[c][1].body_elems[1] = Some(ScriptText101)
        /\ scraped[c][1].title = Some("site name")
        /\ scraped[c][1].body = get_text(Some(Text101))

\* the items of s that sort as priority 999: those with that priority and
\* those without any
SortingAs999(s) ==
    LET Test(x) == ~HasPriority(x) \/ x.priority = 999 IN SelectSeq(s, Test)

\* C17 as claimed: no item without a priority is offered before an item
\* that has one, whatever its value.
C17_NoPriorityLast ==
    \A p \in Producers : \A i, j \in 1..Len(Offered(p)) :
        (i < j /\ HasPriority(Offered(p)[j])) => HasPriority(Offered(p)[i])

\* C17 as amended: an item without a priority is offered as if it had
\* priority 999: after every item of the batch with a priority below 999,
\* before every item with a priority above 999, and in input order among
\* the items with priority 999 or none.
C17_NoPriorityAs999 ==
    \A p \in Producers :
        /\ \A i, j \in 1..Len(Offered(p)) :
            (i < j /\ ~HasPriority(Offered(p)[i]) /\ HasPriority(Offered(p)[j]))
            => Offered(p)[j].priority >= 999
        /\ \A i, j \in 1..Len(Offered(p)) :
            (i < j /\ HasPriority(Offered(p)[i]) /\ ~HasPriority(Offered(p)[j]))
            => Offered(p)[i].priority <= 999
        /\ IsPrefix(SortingAs999(Offered(p)), SortingAs999(articles[p]))
        /\ LoopOver(p) => SortingAs999(Offered(p)) = SortingAs999(articles[p])

\* C17 witness: a batch of an item without priority, one of priority 1000
\* and one of priority 1 has been offered as 1, none, 1000.
C17_Witness ==
    /\ LoopOver("p1")
    /\ Len(articles["p1"]) = 3
    /\ ~HasPriority(articles["p1"][1])
    /\ HasPriority(articles["p1"][2]) /\ articles["p1"][2].priority = 1000
    /\ HasPriority(articles["p1"][3]) /\ articles["p1"][3].priority = 1
    /\ sorted_articles["p1"] = <<articles["p1"][3], articles["p1"][1], articles["p1"][2]>>

\* C18: every id in the marker set has been pushed at least once; an id
\* enters the set only in the step of a publisher that has pushed it and is
\* about to mark it; a failed push (the publisher goes from the check back
\* to its loop) changes neither the set nor the queue; and the set only
\* grows.
C18_MarkedWasPushed ==
    /\ [](\A i \in published : pushed[i] >= 1)
    /\ [][published \subseteq published']_vars
    /\ [][\A i \in published' \ published :
            \E p \in Producers : ppc[p] = "Pushed" /\ Current(p).id = i]_vars
    /\ [][\A p \in Producers :
            (ppc[p] = "Checked" /\ ppc'[p] = "Loop")
            => published' = published /\ queue' = queue /\ pushed' = pushed]_vars

\* C18 witness: two publishers are at the end of their runs, each over one
\* id: the push of the one failed, and its id is neither pushed nor marked;
\* the other pushed and marked its id.
C18_Witness ==
    \E p, q \in Producers : \E i, j \in Ids :
        /\ p # q /\ i # j
        /\ LoopOver(p) /\ sorted_articles[p][1].id = i
        /\ published_count[p] = 0 /\ skipped_count[p] = 1
        /\ pushed[i] = 0 /\ i \notin published
        /\ LoopOver(q) /\ sorted_articles[q][1].id = j
        /\ published_count[q] = 1 /\ skipped_count[q] = 0
        /\ pushed[j] = 1 /\ j \in published

\* C19: when process_task returns from the insert for an id that has a
\* record, the store is unchanged and the consumer is back at the queue
\* poll, with True returned if the store answered; and no step changes or
\* removes a stored record.
C19_FirstWriteWins ==
    /\ [][\A c \in Consumers :
            (cpc[c] = "Persisting" /\ ret'[c] # "None" /\ HasRecord(store, TaskId(c)))
            => /\ store' = store
               /\ cpc'[c] = "Idle"
               /\ storeUp => ret'[c] = "True"]_vars
    /\ [][/\ Len(store') >= Len(store)
          /\ \A k \in 1..Len(store) : store'[k] = store[k]]_vars

\* C19 witness: one id was pushed twice and nothing else; one consumer
\* popped both deliveries, the other consumer none. Its second call found
\* the record of the first and returned True; the store holds one record.
C19_Witness ==
    \E c \in Consumers : \E i \in Ids :
        /\ pushed = [j \in Ids |-> IF j = i THEN 2 ELSE 0]
        /\ queue = <<>>
        /\ cpc[c] = "Idle" /\ ret[c] = "True"
        /\ \A d \in Consumers \ {c} : cpc[d] = "Idle" /\ ret[d] = "None"
        /\ Len(store) = 1 /\ store[1].id = i

\* a publisher completes an iteration of the loop of publish_all
Iterates(p) == ppc[p] # "Down" /\ ppc'[p] # "Down" /\ idx'[p] = idx[p] + 1

\* the iteration a publisher completes is one whose push and mark both
\* completed: it had pushed, and the id enters the marker set
PushedAndMarked(p) ==
    /\ ppc[p] = "Pushed"
    /\ Current(p).id \notin published
    /\ published' = published \cup {Current(p).id}

\* published_count + skipped_count is the number of iterations completed,
\* the size of the batch at the end of the run; an iteration counts as
\* published if its push and mark both completed and as skipped otherwise
CountsRight ==
    /\ [](\A p \in Producers :
            /\ published_count[p] + skipped_count[p] = idx[p]
            /\ LoopOver(p) => published_count[p] + skipped_count[p] = Len(articles[p]))
    /\ [][\A p \in Producers :
            Iterates(p) =>
                IF PushedAndMarked(p)
                THEN /\ published_count'[p] = published_count[p] + 1
                     /\ skipped_count'[p] = skipped_count[p]
                ELSE /\ published_count'[p] = published_count[p]
                     /\ skipped_count'[p] = skipped_count[p] + 1]_vars

\* a publisher pushes the item of its current iteration
Pushes(p) == ppc[p] = "Checked" /\ ppc'[p] = "Pushed"

\* C20 as claimed: the counts are right, and an item is pushed only if no
\* earlier item of the sorted batch has its id.
C20_PushedForFirstOccurrence ==
    /\ CountsRight
    /\ [][\A p \in Producers :
            Pushes(p) =>
                \A k \in 1..idx[p] : sorted_articles[p][k].id # Current(p).id]_vars

\* C20 as amended: the counts are right, and an item is pushed only if its
\* id is not marked: no earlier item of the sorted batch with its id had
\* both push and mark completed. An item whose id is marked is skipped
\* without a push.
C20_PushedUntilMarked ==
    /\ CountsRight
    /\ [][\A p \in Producers :
            /\ Pushes(p) => Current(p).id \notin published
            /\ (Iterates(p) /\ Current(p).id \in published) =>
                /\ pushed' = pushed
                /\ queue' = queue
                /\ skipped_count'[p] = skipped_count[p] + 1]_vars

\* C20 witness: the first run, over two items of one id, is at the end of
\* its loop: the mark of the first occurrence raised, so it is skipped and
\* the second occurrence was pushed as well and marked: one published, one
\* skipped, two pushes of the id.
C20_Witness ==
    \E p \in Producers : \E i \in Ids :
        /\ runs = 1
        /\ LoopOver(p)
        /\ Len(sorted_articles[p]) = 2
        /\ \A k \in 1..2 : sorted_articles[p][k].id = i
        /\ published_count[p] = 1 /\ skipped_count[p] = 1
        /\ pushed[i] = 2
        /\ i \in published

====
